---- MODULE Spec2Model ----
(***************************************************************************)
(* Model of json_compare.comparator.JSONComparator.                        *)
(*                                                                         *)
(* Python strings are sequences of one-character strings, so that          *)
(* str.replace, str.removeprefix, re.sub and the `in` operator are         *)
(* computed character by character instead of being assumed.               *)
(* A JSON value (the result of json.load) is a record tagged by "kind":    *)
(*   None  [kind |-> "null"]            bool  [kind |-> "bool", b |-> ..]  *)
(*   int   [kind |-> "num", n |-> ..]   str   [kind |-> "str", s |-> ..]   *)
(*   dict  [kind |-> "obj", items |-> << <<key, value>>, ... >>]           *)
(*   list  [kind |-> "arr", elems |-> << value, ... >>]                    *)
(* A dict keeps its insertion order, as Python's does.                     *)
(***************************************************************************)
EXTENDS Integers, Sequences, FiniteSets, TLC

VARIABLES left_data, right_data, target_property, properties_to_ignore,
          diff_log, curr_path, init_target, last_call, raised, saved_file

vars == <<left_data, right_data, target_property, properties_to_ignore,
          diff_log, curr_path, init_target, last_call, raised, saved_file>>

RECURSIVE Replace(_, _, _)
RECURSIVE ReSubIndices(_)
RECURSIVE IntToStr(_)
RECURSIVE PyEq(_, _)
RECURSIVE JsonEq(_, _)
RECURSIVE StripIndexAnnotations(_)
RECURSIVE compare_dicts_loop(_, _, _, _, _)
RECURSIVE order_respect_loop(_, _, _, _, _, _)
RECURSIVE nested_obj_prop_loop(_, _, _, _, _)
RECURSIVE get_idx_of_similar_row(_, _, _, _)

(***************************************************************************)
(* Bounds of the generated input documents.                                *)
(***************************************************************************)
MaxArrLen == 3
MaxNum == 2

(***************************************************************************)
(* String literals of the source.                                          *)
(***************************************************************************)
sDATA == <<"D", "A", "T", "A">>
sRIGHT == <<"R", "I", "G", "H", "T">>
sLEFT == <<"L", "E", "F", "T">>
sDot == <<".">>
sArray == <<"<", "a", "r", "r", "a", "y", ">">>
sArrayOpen == <<"<", "a", "r", "r", "a", "y">>

(***************************************************************************)
(* JSON values.                                                            *)
(***************************************************************************)
Null == [kind |-> "null"]
Bool(b) == [kind |-> "bool", b |-> b]
Num(n) == [kind |-> "num", n |-> n]
Str(s) == [kind |-> "str", s |-> s]
Obj(items) == [kind |-> "obj", items |-> items]
Arr(elems) == [kind |-> "arr", elems |-> elems]

IsDict(v) == v.kind = "obj"
IsList(v) == v.kind = "arr"
IsStructural(v) == IsDict(v) \/ IsList(v)

Keys(o) == [i \in 1..Len(o.items) |-> o.items[i][1]]
HasKey(o, key) == \E i \in 1..Len(o.items) : o.items[i][1] = key
ValueOf(o, key) == o.items[CHOOSE i \in 1..Len(o.items) : o.items[i][1] = key][2]

(***************************************************************************)
(* Python string operations.                                               *)
(***************************************************************************)
StartsWith(s, p) == Len(p) <= Len(s) /\ SubSeq(s, 1, Len(p)) = p

Drop(s, n) == SubSeq(s, n + 1, Len(s))

\* from_ in s (substring test), the `in` operator of str
Contains(s, from_) == \E i \in 0..(Len(s) - Len(from_)) : StartsWith(Drop(s, i), from_)

\* s.replace(from_, to): leftmost, non-overlapping occurrences; from_ is never empty here
Replace(s, from_, to) ==
    IF Len(s) = 0 THEN <<>>
    ELSE IF StartsWith(s, from_) THEN to \o Replace(Drop(s, Len(from_)), from_, to)
    ELSE <<Head(s)>> \o Replace(Tail(s), from_, to)

\* s.removeprefix(p)
RemovePrefix(s, p) == IF StartsWith(s, p) THEN Drop(s, Len(p)) ELSE s

NoParen(s, i, j) == \A k \in i..j : s[k] \notin {"(", ")"}

\* re.sub("\[[^()]*\]", "", s): at the leftmost "[" that has a closing "]" with no
\* parenthesis in between, the greedy [^()]* runs to the LAST such "]"; the search
\* resumes after the match.
ReSubIndices(s) ==
    LET starts == {i \in 1..Len(s) : s[i] = "[" /\ \E j \in (i + 1)..Len(s) : s[j] = "]" /\ NoParen(s, i + 1, j - 1)}
    IN  IF starts = {} THEN s
        ELSE LET i == CHOOSE x \in starts : \A y \in starts : x <= y
                 ends == {j \in (i + 1)..Len(s) : s[j] = "]" /\ NoParen(s, i + 1, j - 1)}
                 j == CHOOSE x \in ends : \A y \in ends : x >= y
             IN  SubSeq(s, 1, i - 1) \o ReSubIndices(Drop(s, j))

Digit(d) == <<"0", "1", "2", "3", "4", "5", "6", "7", "8", "9">>[d + 1]

\* str(n) of a natural number, as an f-string formats idx
IntToStr(n) == IF n < 10 THEN <<Digit(n)>> ELSE IntToStr(n \div 10) \o <<Digit(n % 10)>>

(***************************************************************************)
(* Python ==: bool is an int (True == 1, False == 0); containers compare   *)
(* their contents, a dict regardless of key order.                         *)
(***************************************************************************)
IsNumLike(v) == v.kind \in {"bool", "num"}
NumVal(v) == IF v.kind = "bool" THEN (IF v.b THEN 1 ELSE 0) ELSE v.n

PyEq(a, b) ==
    IF IsNumLike(a) /\ IsNumLike(b) THEN NumVal(a) = NumVal(b)
    ELSE IF a.kind # b.kind THEN FALSE
    ELSE IF a.kind = "null" THEN TRUE
    ELSE IF a.kind = "str" THEN a.s = b.s
    ELSE IF a.kind = "arr"
    THEN Len(a.elems) = Len(b.elems) /\ \A i \in 1..Len(a.elems) : PyEq(a.elems[i], b.elems[i])
    ELSE /\ Len(a.items) = Len(b.items)
         /\ \A i \in 1..Len(a.items) :
               /\ HasKey(b, a.items[i][1])
               /\ PyEq(a.items[i][2], ValueOf(b, a.items[i][1]))

PyNe(a, b) == ~PyEq(a, b)

\* len(x): dict, list and str have a length; None, bool and int raise TypeError
LenRaises(v) == v.kind \in {"null", "bool", "num"}
PyLen(v) == IF v.kind = "arr" THEN Len(v.elems) ELSE IF v.kind = "obj" THEN Len(v.items) ELSE Len(v.s)

\* what enumerate(x) iterates: the elements of a list, the keys of a dict, the
\* characters of a str
IterItems(v) ==
    IF v.kind = "arr" THEN v.elems
    ELSE IF v.kind = "obj" THEN [i \in 1..Len(v.items) |-> Str(v.items[i][1])]
    ELSE [i \in 1..Len(v.s) |-> Str(<<v.s[i]>>)]

\* `key in x`: None, bool and int raise TypeError
InRaises(act_data) == act_data.kind \in {"null", "bool", "num"}

\* `key in x`: a key of a dict, an element of a list, a substring of a str
KeyIn(key, act_data) ==
    IF act_data.kind = "obj" THEN HasKey(act_data, key)
    ELSE IF act_data.kind = "arr" THEN \E i \in 1..Len(act_data.elems) : PyEq(Str(key), act_data.elems[i])
    ELSE Contains(act_data.s, key)

\* x[key] with a str key: only a dict holding the key does not raise
SubscriptKeyRaises(act_data, key) == ~IsDict(act_data) \/ ~HasKey(act_data, key)

\* x[idx] with an int idx: IndexError past the end of a list or str, KeyError on a
\* dict (the keys of a JSON object are strings), TypeError on anything else
SubscriptIdxRaises(act_data, idx) ==
    IF act_data.kind = "arr" THEN idx >= Len(act_data.elems)
    ELSE IF act_data.kind = "str" THEN idx >= Len(act_data.s)
    ELSE TRUE

SubscriptIdx(act_data, idx) ==
    IF act_data.kind = "arr" THEN act_data.elems[idx + 1] ELSE Str(<<act_data.s[idx + 1]>>)

(***************************************************************************)
(* LogProcessor: the ordered log and the cursor curr_path.  A comparator   *)
(* st holds the fields of self (left_data, right_data, target_property,    *)
(* properties_to_ignore), the recorder's log and curr_path, and err (an    *)
(* exception is propagating).                                              *)
(***************************************************************************)
Raise(st) == [st EXCEPT !.err = TRUE]

Entry(kind, path, exp, act, prop) == [kind |-> kind, path |-> path, exp |-> exp, act |-> act, prop |-> prop]

Record(st, kind, exp, act, prop) == [st EXCEPT !.log = Append(st.log, Entry(kind, st.curr_path, exp, act, prop))]

setup_path(st, item_path, key) == [st EXCEPT !.curr_path = item_path \o sDot \o key]

missing_property(st) == Record(st, "missingProperty", Null, Null, Null)

incorrect_type(st, exp_kind, act_value) == Record(st, "incorrectType", exp_kind, act_value, Null)

unequal_values(st, exp_value, act_value) == Record(st, "unequalValues", exp_value, act_value, Null)

missing_array_item(st, exp_value, target_prop) == Record(st, "missingArrayItem", exp_value, Null, target_prop)

lack_of_array_items(st, exp_len, act_len) == Record(st, "lackOfArrayItems", Num(exp_len), Num(act_len), Null)

exceeding_array_items(st, exp_len, act_len) == Record(st, "exceedingArrayItems", Num(exp_len), Num(act_len), Null)

\* mutant of clear: the log of the previous call is kept
clear_kept(st) == st

\* self.diff_log.log.clear()
clear(st) == [st EXCEPT !.log = <<>>]

(***************************************************************************)
(* JSONComparator: the private helpers.                                    *)
(***************************************************************************)
edit_target_prop_path_root(st, from_, to) ==
    [st EXCEPT !.target_property = Replace(st.target_property, from_, to)]

key_to_ignore(st) ==
    LET curr_path_without_idx == Replace(Replace(ReSubIndices(st.curr_path), sRIGHT, sDATA), sLEFT, sDATA)
    IN  \E i \in 1..Len(st.properties_to_ignore) : st.properties_to_ignore[i] = curr_path_without_idx

\* mutant of check_array_lengths: >= where the source has >
check_array_lengths_ge(st, item_path, exp_len, act_len) ==
    LET s1 == setup_path(st, item_path, sArray)
    IN  IF exp_len >= act_len THEN lack_of_array_items(s1, exp_len, act_len)
        ELSE IF exp_len < act_len THEN exceeding_array_items(s1, exp_len, act_len)
        ELSE s1

check_array_lengths(st, item_path, exp_len, act_len) ==
    LET s1 == setup_path(st, item_path, sArray)
    IN  IF exp_len > act_len THEN lack_of_array_items(s1, exp_len, act_len)
        ELSE IF exp_len < act_len THEN exceeding_array_items(s1, exp_len, act_len)
        ELSE s1

get_target_key(st) ==
    Replace(RemovePrefix(st.target_property, ReSubIndices(st.curr_path)), sDot, <<>>)

\* the index of the first row whose prop equals prop_val; -1 for None; -2 when a
\* row has no .get (AttributeError)
get_idx_of_similar_row(prop, prop_val, data, idx) ==
    IF idx >= Len(data) THEN -1
    ELSE LET obj == data[idx + 1]
         IN  IF ~IsDict(obj) THEN -2
             ELSE LET act_val == IF HasKey(obj, prop) THEN ValueOf(obj, prop) ELSE Null
                  IN  IF PyEq(act_val, prop_val) THEN idx
                      ELSE get_idx_of_similar_row(prop, prop_val, data, idx + 1)

\* hasattr(self, "target_key_path"): no code of the class sets this attribute
has_target_key_path == FALSE

\* line 142: the expected item has no counterpart in the actual array
no_actual_item(idx, act_data_len) == idx = act_data_len

\* line 94: the value the match statement dispatches on
match_subject(st, data1) == st.left_data

(***************************************************************************)
(* JSONComparator: the comparison engine.                                  *)
(***************************************************************************)
\* exp_data.items() raises AttributeError unless exp_data is a dict
compare_dicts(st, item_path, exp_data, act_data) ==
    IF st.err THEN st
    ELSE IF ~IsDict(exp_data) THEN Raise(st)
    ELSE compare_dicts_loop(st, item_path, exp_data, act_data, 1)

compare_with_items_order_respect(st, item_path, exp_data, act_data) ==
    IF st.err THEN st
    ELSE IF LenRaises(exp_data) \/ LenRaises(act_data) THEN Raise(st)
    ELSE order_respect_loop(check_array_lengths(st, item_path, PyLen(exp_data), PyLen(act_data)),
                            item_path, IterItems(exp_data), act_data, PyLen(act_data), 0)

compare_with_nested_obj_prop_respect(st, item_path, exp_data, act_data) ==
    IF st.err THEN st
    ELSE IF LenRaises(exp_data) \/ LenRaises(act_data) THEN Raise(st)
    ELSE nested_obj_prop_loop(check_array_lengths(st, item_path, PyLen(exp_data), PyLen(act_data)),
                              item_path, IterItems(exp_data), act_data, 0)

compare_lists(st, item_path, exp_data, act_data) ==
    IF has_target_key_path
    THEN compare_with_nested_obj_prop_respect(st, item_path, exp_data, act_data)
    ELSE compare_with_items_order_respect(st, item_path, exp_data, act_data)

\* the body of `for key, val in exp_data.items()`, from item number i on
compare_dicts_loop(st, item_path, exp_data, act_data, i) ==
    IF st.err \/ i > Len(exp_data.items) THEN st
    ELSE LET key == exp_data.items[i][1]
             val == exp_data.items[i][2]
             s1 == setup_path(st, item_path, key)
             rest(s) == compare_dicts_loop(s, item_path, exp_data, act_data, i + 1)
         IN  IF InRaises(act_data) THEN Raise(s1)
             ELSE IF ~KeyIn(key, act_data) THEN rest(missing_property(s1))
             ELSE IF SubscriptKeyRaises(act_data, key) THEN Raise(s1)
             ELSE LET act == ValueOf(act_data, key)
                  IN  IF IsDict(val)
                      THEN IF IsDict(act)
                           THEN rest(compare_dicts(s1, s1.curr_path, val, act))
                           ELSE rest(incorrect_type(s1, Obj(<<>>), act))
                      ELSE IF IsList(val)
                      THEN IF IsList(act)
                           THEN rest(compare_lists(s1, s1.curr_path, val, act))
                           ELSE rest(incorrect_type(s1, Arr(<<>>), act))
                      ELSE IF PyNe(val, act) /\ ~key_to_ignore(s1)
                      THEN rest(unequal_values(s1, val, act))
                      ELSE rest(s1)

\* the body of `for idx, val in enumerate(exp_data)` of the positional strategy,
\* from index idx on (exp_items is what enumerate iterates)
order_respect_loop(st, item_path, exp_items, act_data, act_data_len, idx) ==
    IF st.err \/ idx >= Len(exp_items) THEN st
    ELSE LET val == exp_items[idx + 1]
             s1 == setup_path(st, item_path, sArray \o <<"[">> \o IntToStr(idx) \o <<"]">>)
             rest(s) == order_respect_loop(s, item_path, exp_items, act_data, act_data_len, idx + 1)
         IN  IF no_actual_item(idx, act_data_len) THEN rest(missing_array_item(s1, val, Null))
             ELSE IF SubscriptIdxRaises(act_data, idx) THEN Raise(s1)
             ELSE LET act == SubscriptIdx(act_data, idx)
                  IN  IF IsDict(val)
                      THEN IF IsDict(act)
                           THEN rest(compare_dicts(s1, s1.curr_path, val, act))
                           ELSE rest(incorrect_type(s1, Obj(<<>>), act))
                      ELSE IF IsList(val)
                      THEN IF IsList(act)
                           THEN rest(compare_lists(s1, s1.curr_path, val, act))
                           ELSE rest(incorrect_type(s1, Arr(<<>>), act))
                      ELSE IF PyNe(val, act)
                      THEN rest(unequal_values(s1, val, act))
                      ELSE rest(s1)

\* the body of `for idx, val in enumerate(exp_data)` of the keyed strategy
nested_obj_prop_loop(st, item_path, exp_items, act_data, idx) ==
    IF st.err \/ idx >= Len(exp_items) THEN st
    ELSE LET val == exp_items[idx + 1]
             s1 == setup_path(st, item_path, sArrayOpen \o <<"[">> \o IntToStr(idx) \o <<"]", ">">>)
             rest(s) == nested_obj_prop_loop(s, item_path, exp_items, act_data, idx + 1)
         IN  IF IsDict(val)
             THEN LET target_prop == get_target_key(s1)
                  IN  IF ~HasKey(val, target_prop) THEN Raise(s1)
                      ELSE LET target_prop_val == ValueOf(val, target_prop)
                               act_data_similar_idx == get_idx_of_similar_row(target_prop, target_prop_val, IterItems(act_data), 0)
                           IN  IF act_data_similar_idx = -2 THEN Raise(s1)
                               ELSE IF act_data_similar_idx = -1
                               THEN rest(missing_array_item(s1, target_prop_val, Str(target_prop)))
                               ELSE rest(compare_dicts(s1, s1.curr_path, val, SubscriptIdx(act_data, act_data_similar_idx)))
             ELSE IF SubscriptIdxRaises(act_data, idx) THEN Raise(s1)
             ELSE LET act == SubscriptIdx(act_data, idx)
                  IN  IF IsList(val)
                      THEN IF IsList(act)
                           THEN rest(compare_lists(s1, s1.curr_path, val, act))
                           ELSE rest(incorrect_type(s1, Arr(<<>>), act))
                      ELSE IF PyNe(val, act)
                      THEN rest(unequal_values(s1, val, act))
                      ELSE rest(s1)

\* __compare: a bare `raise` outside an except block raises RuntimeError
compare(st, with_actual) ==
    LET data1 == IF with_actual THEN st.left_data ELSE st.right_data
        data2 == IF with_actual THEN st.right_data ELSE st.left_data
        root_log == IF with_actual THEN sRIGHT ELSE sLEFT
    IN  IF st.err THEN st
        ELSE IF IsDict(match_subject(st, data1)) THEN compare_dicts(st, root_log, data1, data2)
        ELSE IF IsList(match_subject(st, data1)) THEN compare_lists(st, root_log, data1, data2)
        ELSE Raise(st)

\* a statement that runs only when no exception is propagating
EditUnlessRaised(st, from_, to) == IF st.err THEN st ELSE edit_target_prop_path_root(st, from_, to)

\* the comparator object as a call finds it
Self ==
    [left_data |-> left_data, right_data |-> right_data,
     target_property |-> target_property, properties_to_ignore |-> properties_to_ignore,
     log |-> diff_log, curr_path |-> curr_path, err |-> FALSE]

run_compare_with_right(st) ==
    EditUnlessRaised(compare(edit_target_prop_path_root(clear(st), sDATA, sRIGHT), TRUE), sRIGHT, sDATA)

run_compare_with_left(st) ==
    EditUnlessRaised(compare(edit_target_prop_path_root(clear(st), sDATA, sLEFT), FALSE), sLEFT, sDATA)

run_full_compare(st) ==
    EditUnlessRaised(
        compare(EditUnlessRaised(compare(edit_target_prop_path_root(clear(st), sDATA, sRIGHT), TRUE),
                                 sRIGHT, sLEFT),
                FALSE),
        sLEFT, sDATA)

(***************************************************************************)
(* The input documents and configurations the model draws from.            *)
(***************************************************************************)
kA == <<"a">>
kB == <<"b">>
kC == <<"c">>
kV == <<"v">>
kId == <<"i", "d">>

Numbers == [i \in 1..(MaxNum + 1) |-> Num(i - 1)]

Scalars == <<Null, Bool(TRUE), Bool(FALSE), Str(<<"1">>), Str(<<"a">>), Str(<<"x">>)>> \o Numbers

Values == Scalars \o <<Obj(<<>>), Arr(<<>>), Obj(<<<<kC, Num(1)>>>>), Arr(<<Num(1)>>)>>

\* {"a": v} and [v] for every value v
SingleProperty == [i \in 1..Len(Values) |-> Obj(<<<<kA, Values[i]>>>>)]
SingleItem == [i \in 1..Len(Values) |-> Arr(<<Values[i]>>)]

\* [1, 2, ..., k] for k = 2..MaxArrLen
Prefixes == [k \in 1..(MaxArrLen - 1) |-> Arr([i \in 1..(k + 1) |-> Num(i)])]

Row(id, v) == Obj(<<<<kId, Num(id)>>, <<kV, Str(<<v>>)>>>>)

Nested ==
    << Obj(<<<<kA, Num(1)>>, <<kB, Str(<<"x">>)>>>>),
       Obj(<<<<kB, Str(<<"x">>)>>, <<kA, Num(1)>>>>),
       Obj(<<<<kA, Num(2)>>, <<kB, Str(<<"y">>)>>>>),
       Obj(<<<<kB, Num(1)>>>>),
       Obj(<<<<sRIGHT, Num(1)>>>>),
       Obj(<<<<sRIGHT, Num(2)>>>>),
       Arr(<<Obj(<<<<kC, Num(2)>>>>)>>),
       Arr(<<Arr(<<Obj(<<<<kC, Num(1)>>>>)>>)>>),
       Arr(<<Arr(<<Obj(<<<<kC, Num(2)>>>>)>>)>>),
       Obj(<<<<kA, Arr(<<Obj(<<<<kB, Arr(<<Num(1), Obj(<<<<kC, Num(1)>>>>)>>)>>>>)>>)>>>>),
       Obj(<<<<kA, Arr(<<Obj(<<<<kB, Arr(<<Num(1), Obj(<<<<kC, Num(2)>>>>)>>)>>>>)>>)>>>>),
       Arr(<<Row(1, "a"), Row(2, "b")>>),
       Arr(<<Row(2, "b"), Row(1, "x")>>),
       Arr(<<Row(1, "x"), Row(2, "b")>>) >>

Documents == Values \o SingleProperty \o SingleItem \o Prefixes \o Nested

pDataA == sDATA \o sDot \o kA
pDataRIGHT == sDATA \o sDot \o sRIGHT
pArrC == sDATA \o sDot \o sArray \o sDot \o kC
pArrArrC == sDATA \o sDot \o sArray \o sDot \o sArray \o sDot \o kC
pDeepC == sDATA \o sDot \o kA \o sDot \o sArray \o sDot \o kB \o sDot \o sArray \o sDot \o kC
tArrId == sDATA \o sDot \o sArray \o sDot \o kId
tRightsId == sDATA \o sDot \o sRIGHT \o sDot \o sArray \o sDot \o kId

\* <<target_property, properties_to_ignore>> as given to the constructor
Configurations ==
    << <<<<>>, <<>>>>,
       <<tArrId, <<pDataA, pArrArrC, pDeepC>>>>,
       <<tRightsId, <<pArrC, pDataRIGHT>>>> >>

(***************************************************************************)
(* The state machine: __init__ and the public methods.                     *)
(***************************************************************************)
Init ==
    \E l \in 1..Len(Documents), r \in 1..Len(Documents), c \in 1..Len(Configurations) :
        /\ left_data = Documents[l]
        /\ right_data = Documents[r]
        /\ target_property = Configurations[c][1]
        /\ properties_to_ignore = Configurations[c][2]
        /\ init_target = Configurations[c][1]
        /\ diff_log = <<>>
        /\ curr_path = <<>>
        /\ last_call = "none"
        /\ raised = FALSE
        /\ saved_file = <<>>

\* what a call leaves behind: r is the comparator when the call ends
Returned(r) ==
    /\ diff_log' = r.log
    /\ curr_path' = r.curr_path
    /\ target_property' = r.target_property
    /\ raised' = r.err
    /\ UNCHANGED <<left_data, right_data, properties_to_ignore, init_target, saved_file>>

compare_with_right ==
    /\ last_call' = "compare_with_right"
    /\ Returned(run_compare_with_right(Self))

compare_with_left ==
    /\ last_call' = "compare_with_left"
    /\ Returned(run_compare_with_left(Self))

full_compare ==
    /\ last_call' = "full_compare"
    /\ Returned(run_full_compare(Self))

save_diff_logs ==
    /\ saved_file' = diff_log
    /\ UNCHANGED <<left_data, right_data, target_property, properties_to_ignore,
                   diff_log, curr_path, init_target, last_call, raised>>

Next == compare_with_right \/ compare_with_left \/ full_compare \/ save_diff_logs

Spec == Init /\ [][Next]_vars

\* JSON equality: the same kind and value; objects regardless of key order
JsonEq(a, b) ==
    IF a.kind # b.kind THEN FALSE
    ELSE IF a.kind = "null" THEN TRUE
    ELSE IF a.kind = "bool" THEN a.b = b.b
    ELSE IF a.kind = "num" THEN a.n = b.n
    ELSE IF a.kind = "str" THEN a.s = b.s
    ELSE IF a.kind = "arr"
    THEN Len(a.elems) = Len(b.elems) /\ \A i \in 1..Len(a.elems) : JsonEq(a.elems[i], b.elems[i])
    ELSE /\ Len(a.items) = Len(b.items)
         /\ \A i \in 1..Len(a.items) :
               /\ HasKey(b, a.items[i][1])
               /\ JsonEq(a.items[i][2], ValueOf(b, a.items[i][1]))

(***************************************************************************)
(* Definitions the properties below are stated with.                       *)
(***************************************************************************)
Called == last_call # "none"

\* the comparator as constructed, before any call
Fresh == [Self EXCEPT !.target_property = init_target, !.log = <<>>, !.curr_path = <<>>]

RootPath(root, key) == root \o sDot \o key
ItemPath(root, idx) == root \o sDot \o sArray \o <<"[">> \o IntToStr(idx) \o <<"]">>

IsScalar(v) == ~IsStructural(v)

Ignored(path) == \E i \in 1..Len(properties_to_ignore) : properties_to_ignore[i] = path

\* {k: x} against {k: y}: one property, the same key on both sides
OnePropertyEach ==
    /\ IsDict(left_data) /\ IsDict(right_data)
    /\ Len(left_data.items) = 1 /\ Len(right_data.items) = 1
    /\ left_data.items[1][1] = right_data.items[1][1]

\* [x] against [y]
OneItemEach ==
    /\ IsList(left_data) /\ IsList(right_data)
    /\ Len(left_data.elems) = 1 /\ Len(right_data.elems) = 1

(***************************************************************************)
(* C1: when the two documents are equal as JSON (object keys in any order, *)
(* array items in the same order) and their root is an object or an array, *)
(* every comparison call returns normally and leaves the log empty.        *)
(***************************************************************************)
C1_EqualDocumentsEmptyLog ==
    (Called /\ IsStructural(left_data) /\ JsonEq(left_data, right_data))
        => (~raised /\ diff_log = <<>>)

\* equal objects whose keys come in a different order, after full_compare
C1_Witness ==
    /\ last_call = "full_compare"
    /\ IsDict(left_data) /\ IsDict(right_data)
    /\ JsonEq(left_data, right_data)
    /\ Keys(left_data) # Keys(right_data)
    /\ ~raised /\ diff_log = <<>>

(***************************************************************************)
(* C2: positional strategy, expected array of length m against an actual   *)
(* array of length n < m: compare_with_right runs to completion and the    *)
(* log holds exactly one lackOfArrayItems(m, n) entry at the array path    *)
(* and exactly one missingArrayItem entry for each expected index i with   *)
(* n <= i < m, m - n in all.                                               *)
(***************************************************************************)
RootItemPaths == {ItemPath(sRIGHT, i) : i \in 0..(Len(left_data.elems) - 1)}

C2_ShorterActualArray ==
    (/\ last_call = "compare_with_right"
     /\ IsList(left_data) /\ IsList(right_data)
     /\ Len(left_data.elems) > Len(right_data.elems))
        => LET m == Len(left_data.elems)
               n == Len(right_data.elems)
               lack == Entry("lackOfArrayItems", RootPath(sRIGHT, sArray), Num(m), Num(n), Null)
           IN  /\ ~raised
               /\ Cardinality({k \in 1..Len(diff_log) : diff_log[k] = lack}) = 1
               /\ \A i \in n..(m - 1) :
                     Cardinality({k \in 1..Len(diff_log) :
                                     /\ diff_log[k].kind = "missingArrayItem"
                                     /\ diff_log[k].path = ItemPath(sRIGHT, i)}) = 1
               /\ Cardinality({k \in 1..Len(diff_log) :
                                  /\ diff_log[k].kind = "missingArrayItem"
                                  /\ diff_log[k].path \in RootItemPaths}) = m - n

(***************************************************************************)
(* C3: a value mismatch at a scalar object property, at any depth, is      *)
(* suppressed if and only if the property's normalized path (every [i]     *)
(* removed, the root label replaced by DATA) is in properties_to_ignore:   *)
(* the value mismatches a call records are those the same call records     *)
(* with nothing ignored, less the ones whose normalized path is ignored.   *)
(***************************************************************************)
\* every index annotation [i] removed, each up to its own closing bracket
StripIndexAnnotations(s) ==
    IF Len(s) = 0 THEN <<>>
    ELSE IF Head(s) = "[" /\ \E j \in 2..Len(s) : s[j] = "]"
    THEN StripIndexAnnotations(Drop(s, CHOOSE j \in 2..Len(s) : s[j] = "]" /\ \A k \in 2..(j - 1) : s[k] # "]"))
    ELSE <<Head(s)>> \o StripIndexAnnotations(Tail(s))

NormalizedPath(path) ==
    LET p == StripIndexAnnotations(path)
    IN  IF StartsWith(p, sRIGHT) THEN sDATA \o Drop(p, Len(sRIGHT))
        ELSE IF StartsWith(p, sLEFT) THEN sDATA \o Drop(p, Len(sLEFT))
        ELSE p

IsPropertyValueMismatch(e) ==
    /\ e.kind = "unequalValues"
    /\ e.path[Len(e.path)] # "]"
    /\ IsScalar(e.exp) /\ IsScalar(e.act)

NotIgnored(e) == ~Ignored(NormalizedPath(e.path))

RunLastCall(st) ==
    IF last_call = "compare_with_right" THEN run_compare_with_right(st)
    ELSE IF last_call = "compare_with_left" THEN run_compare_with_left(st)
    ELSE run_full_compare(st)

C3_IgnoredIffNormalizedPathListed ==
    (Called /\ ~raised)
        => SelectSeq(diff_log, IsPropertyValueMismatch)
             = SelectSeq(SelectSeq(RunLastCall([Fresh EXCEPT !.properties_to_ignore = <<>>]).log,
                                   IsPropertyValueMismatch),
                         NotIgnored)

(***************************************************************************)
(* C4: with a target-property path configured for an array of objects,     *)
(* each expected element is compared against the first actual element      *)
(* whose identifying property is equal, whatever its index: for            *)
(* [{id:1,v:a},{id:2,v:b}] against [{id:2,v:b},{id:1,v:x}] with            *)
(* DATA.<array>.id the log holds exactly one unequalValues entry (v: a     *)
(* against x), and reversing the actual array leaves the set of entries    *)
(* unchanged.                                                              *)
(***************************************************************************)
Reversed(s) == [i \in 1..Len(s) |-> s[Len(s) + 1 - i]]

EntrySet(log) == {log[k] : k \in 1..Len(log)}

C4_KeyedMatchingIgnoresOrder ==
    (/\ last_call = "compare_with_right"
     /\ init_target = tArrId
     /\ left_data = Arr(<<Row(1, "a"), Row(2, "b")>>)
     /\ IsList(right_data)
     /\ right_data.elems \in {<<Row(2, "b"), Row(1, "x")>>, <<Row(1, "x"), Row(2, "b")>>})
        => /\ ~raised
           /\ Len(diff_log) = 1
           /\ diff_log[1].kind = "unequalValues"
           /\ diff_log[1].exp = Str(<<"a">>)
           /\ diff_log[1].act = Str(<<"x">>)
           /\ EntrySet(diff_log)
                = EntrySet(run_compare_with_right([Fresh EXCEPT !.right_data = Arr(Reversed(right_data.elems))]).log)

(***************************************************************************)
(* C5: every public comparison call starts from an empty log, so the log   *)
(* after a call is the log the same call leaves on a freshly constructed   *)
(* comparator; when both single-direction passes complete, the log after   *)
(* full_compare is the log of compare_with_right followed by the log of    *)
(* compare_with_left; and a scalar leaf the comparison finds unequal,      *)
(* a on the left and b on the right, is listed exactly once by             *)
(* compare_with_right (expected a, actual b), exactly once by              *)
(* compare_with_left (expected b, actual a) and exactly twice, in that     *)
(* order, by full_compare.                                                 *)
(***************************************************************************)
LeafMismatch ==
    /\ OnePropertyEach
    /\ IsScalar(left_data.items[1][2]) /\ IsScalar(right_data.items[1][2])
    /\ PyNe(left_data.items[1][2], right_data.items[1][2])
    /\ ~Ignored(NormalizedPath(RootPath(sRIGHT, left_data.items[1][1])))

C6_NonStructuralRootIsFatal ==
    (Called /\ (~IsStructural(left_data) \/ ~IsStructural(right_data)))
        => (raised /\ diff_log = <<>>)

(***************************************************************************)
(* C7: after any sequence of comparison calls, whether each returned or    *)
(* raised, target_property equals the value supplied at construction.      *)
(***************************************************************************)
C7_TargetPropertyRestored == target_property = init_target

(***************************************************************************)
(* C8: for a key present on both sides where exactly one of the two values *)
(* is an object or an array, each pass records exactly one incorrectType   *)
(* entry and no unequalValues entry, also when the key's normalized path   *)
(* is in the ignore set.                                                   *)
(***************************************************************************)
C8_TypeMismatchIsIncorrectType ==
    (/\ Called
     /\ OnePropertyEach
     /\ IsStructural(left_data.items[1][2]) # IsStructural(right_data.items[1][2]))
        => /\ ~raised
           /\ Len(diff_log) = (IF last_call = "full_compare" THEN 2 ELSE 1)
           /\ \A k \in 1..Len(diff_log) : diff_log[k].kind = "incorrectType"

(***************************************************************************)
(* C9: dispatch is on the root kind of the expected document of the        *)
(* current direction (the right document in compare_with_left), and for    *)
(* any two documents whose roots are each an object or an array every      *)
(* call completes without raising.                                         *)
(***************************************************************************)
compare_on_expected(st, with_actual) ==
    LET data1 == IF with_actual THEN st.left_data ELSE st.right_data
        data2 == IF with_actual THEN st.right_data ELSE st.left_data
        root_log == IF with_actual THEN sRIGHT ELSE sLEFT
    IN  IF IsDict(data1) THEN compare_dicts(st, root_log, data1, data2)
        ELSE IF IsList(data1) THEN compare_lists(st, root_log, data1, data2)
        ELSE Raise(st)

C9_DispatchOnExpectedRoot ==
    (Called /\ IsStructural(left_data) /\ IsStructural(right_data))
        => /\ ~raised
           /\ last_call = "compare_with_left" => diff_log = compare_on_expected(Fresh, FALSE).log

(***************************************************************************)
(* C10: scalars of different JSON kinds at a non-ignored leaf (an object   *)
(* property or a positional array element) are unequal: exactly one        *)
(* unequalValues entry is recorded.                                        *)
(***************************************************************************)
C10_NoTypeCoercion ==
    /\ (/\ last_call = "compare_with_right"
        /\ OnePropertyEach
        /\ IsScalar(left_data.items[1][2]) /\ IsScalar(right_data.items[1][2])
        /\ left_data.items[1][2].kind # right_data.items[1][2].kind
        /\ ~Ignored(NormalizedPath(RootPath(sRIGHT, left_data.items[1][1]))))
          => diff_log = <<Entry("unequalValues", RootPath(sRIGHT, left_data.items[1][1]),
                                left_data.items[1][2], right_data.items[1][2], Null)>>
    /\ (/\ last_call = "compare_with_right"
        /\ OneItemEach
        /\ IsScalar(left_data.elems[1]) /\ IsScalar(right_data.elems[1])
        /\ left_data.elems[1].kind # right_data.elems[1].kind)
          => diff_log = <<Entry("unequalValues", ItemPath(sRIGHT, 0),
                                left_data.elems[1], right_data.elems[1], Null)>>

====
